---- MODULE Spec2Model ----
(***************************************************************************)
(* A model of ssh-mcp: the connection registry of SSHClientManager        *)
(* (ssh-client.ts), the reload of index.ts, and the per-operation session  *)
(* life cycle of runCommand / readFile / listDirectory / uploadFile /      *)
(* downloadFile / testConnection.                                          *)
(*                                                                         *)
(* Conventions                                                             *)
(*  - a JavaScript string that is absent (undefined) or empty is the empty *)
(*    string "": both are falsy and the code only tests truthiness;        *)
(*  - a port that is absent or zero is 0 (`conn.port || 22`);              *)
(*  - a path is a sequence of path tokens, "~" being the tilde, so that    *)
(*    tilde expansion is computed and not assumed; the absent path is <<>>;*)
(*  - the Map `connections` is a sequence of [k, v] entries in insertion   *)
(*    order, as a JavaScript Map iterates.                                 *)
(***************************************************************************)
EXTENDS Integers, Sequences, FiniteSets, TLC

VARIABLES
    connections,   \* SSHClientManager.connections : Map<string, SSHConnection>
    sources,       \* the caller's list of source lists handed to loadConnections
    origSources,   \* history: the source lists as first handed over
    hist,          \* history: the last registry operation [op, name, ret]
    \* the server (index.ts, handlers.ts, config.ts)
    configFile,    \* ~/.config/ssh-mcp/connections.json as loadConfig() parses it
    envConns,      \* process.env.SSH_CONNECTIONS, parsed
    envToken,      \* process.env.BINARYLANE_API_TOKEN
    reqs,          \* the tool calls in flight, one slot each
    obs,           \* the answer of a list_connections call that has just returned
    lastSources,   \* history: the source lists of the last loadConnections
    \* the operations of SSHClientManager
    calls,         \* the operation calls, one slot each (see NoCall)
    fs,            \* the local files that exist (existsSync)
    disk           \* the content of the files that uploadFile and downloadFile
                   \* move: [local, remote, origin] (see DiskOf)

regVars == <<sources, origSources, hist>>

srvVars == <<configFile, envConns, envToken, reqs, obs, lastSources>>

sesVars == <<calls, fs, disk>>

vars == <<connections, regVars, srvVars, sesVars>>

(***************************************************************************)
(* Bounds of the model                                                     *)
(***************************************************************************)
MaxSrcLen == 2

MaxReqs == 2

MaxCalls == 1

MaxChunks == 1

\* the chunks of a command whose output is followed chunk by chunk
MaxStream == 2

(***************************************************************************)
(* Program constants                                                       *)
(***************************************************************************)
DefaultPort == 22

\* os.homedir(): an absolute directory
HomeDir == <<"home">>

NoPath == <<>>

(***************************************************************************)
(* SSHConnection records                                                   *)
(***************************************************************************)
Conn(n, h, p, u, k, pw, s) ==
    [name |-> n, host |-> h, port |-> p, username |-> u,
     privateKeyPath |-> k, password |-> pw, source |-> s]

\* Connection definitions a caller may put in a source list (the source tag is
\* set by the caller that builds the list).
CandRecords ==
    { Conn("a", "h1", 0,    "u1", <<"~", "k">>,   "",   ""),
      Conn("a", "h2", 2222, "u2", NoPath,         "pw", ""),
      Conn("b", "h1", 2222, "u1", <<"abs", "k">>, "",   ""),
      Conn("a", "",   0,    "u1", NoPath,         "pw", ""),
      Conn("",  "h1", 0,    "u1", NoPath,         "pw", ""),
      Conn("b", "h2", 0,    "",   NoPath,         "pw", "") }

Names == {"a", "b"}

Tagged(c, tag) == [c EXCEPT !.source = tag]

SeqsUpTo(S, n) == UNION { [1..k -> S] : k \in 0..n }

SrcLists(tag) == SeqsUpTo({ Tagged(c, tag) : c \in CandRecords }, MaxSrcLen)

(***************************************************************************)
(* The Map<string, SSHConnection>                                          *)
(***************************************************************************)
EmptyMap == <<>>

MapHas(m, key) == \E i \in 1..Len(m) : m[i].k = key

MapIndex(m, key) == CHOOSE i \in 1..Len(m) : m[i].k = key

\* Map.get: the value, or undefined
Undefined == [undefined |-> TRUE]

MapGet(m, key) == IF MapHas(m, key) THEN m[MapIndex(m, key)].v ELSE Undefined

\* a list that is appended to on every set
MapSetAppend(m, key, val) == Append(m, [k |-> key, v |-> val])

\* Map.set: an existing key keeps its place, a new key goes last
MapSet(m, key, val) ==
    IF MapHas(m, key)
    THEN [m EXCEPT ![MapIndex(m, key)] = [k |-> key, v |-> val]]
    ELSE Append(m, [k |-> key, v |-> val])

\* Map.delete
MapDelete(m, key) ==
    IF MapHas(m, key)
    THEN LET i == MapIndex(m, key)
         IN  SubSeq(m, 1, i - 1) \o SubSeq(m, i + 1, Len(m))
    ELSE m

MapValues(m) == [i \in 1..Len(m) |-> m[i].v]

(***************************************************************************)
(* Normalisation of an accepted record                                     *)
(***************************************************************************)
\* a tilde expansion that prefixes the home directory to every path
ExpandTildeAlways(p) == HomeDir \o p

\* privateKeyPath.replace(/^~/, homedir())
ExpandTilde(p) ==
    IF p # NoPath /\ Head(p) = "~" THEN HomeDir \o Tail(p) ELSE p

\* a port that is kept as given, absent or not
PortKept(p) == p

\* conn.port || 22
PortOrDefault(p) == IF p = 0 THEN DefaultPort ELSE p

Normalise(conn) ==
    [conn EXCEPT
        !.privateKeyPath = IF @ # NoPath THEN ExpandTilde(@) ELSE @,
        !.port = PortOrDefault(@)]

\* a validity test that only looks at the name
InvalidNameOnly(conn) == conn.name = ""

\* !conn.name || !conn.host || !conn.username
Invalid(conn) == conn.name = "" \/ conn.host = "" \/ conn.username = ""

(***************************************************************************)
(* SSHClientManager.loadConnections                                        *)
(* The accumulator is [m: the map, l: the source lists]: an accepted       *)
(* record is normalised in place, so the caller's lists change too.        *)
(***************************************************************************)
\* a merge step in which a later definition of a name overwrites an earlier one
AcceptLastWins(acc, s, i) ==
    LET conn == acc.l[s][i]
    IN  IF Invalid(conn) THEN acc
        ELSE LET n == Normalise(conn)
             IN  [m |-> MapSet(acc.m, n.name, n),
                  l |-> [acc.l EXCEPT ![s][i] = n]]

\* the body of the inner loop for record i of source s
Accept(acc, s, i) ==
    LET conn == acc.l[s][i]
    IN  IF Invalid(conn) THEN acc
        ELSE IF MapHas(acc.m, conn.name) THEN acc
        ELSE LET n == Normalise(conn)
             IN  [m |-> MapSet(acc.m, n.name, n),
                  l |-> [acc.l EXCEPT ![s][i] = n]]

RECURSIVE LoadFrom(_, _, _)
LoadFrom(acc, s, i) ==
    IF s > Len(acc.l) THEN acc
    ELSE IF i > Len(acc.l[s]) THEN LoadFrom(acc, s + 1, 1)
    ELSE LoadFrom(Accept(acc, s, i), s, i + 1)

\* a merge into the registry as it stands, without connections.clear()
loadConnectionsNoClear(srcs) == LoadFrom([m |-> connections, l |-> srcs], 1, 1)

\* connections.clear(), then the two loops
loadConnections(srcs) == LoadFrom([m |-> EmptyMap, l |-> srcs], 1, 1)

(***************************************************************************)
(* Registry operations of SSHClientManager                                 *)
(***************************************************************************)
getConnection(name) == MapGet(connections, name)

Project(c) ==
    [name |-> c.name, host |-> c.host, port |-> c.port,
     username |-> c.username, source |-> c.source]

listConnections == [i \in 1..Len(connections) |-> Project(connections[i].v)]

NoHist == [op |-> "none", name |-> "", ret |-> FALSE]

LoadConnections ==
    LET r == loadConnections(sources)
    IN  /\ connections' = r.m
        /\ sources' = r.l
        \* history: "reload" is a load of the lists the previous load was given;
        \* ret: the load discarded a record the registry held
        /\ hist' = [op |-> IF hist.op \in {"load", "reload"} THEN "reload" ELSE "load",
                    name |-> "",
                    ret |-> \E i \in 1..Len(connections) :
                               MapGet(r.m, connections[i].k) # connections[i].v]
        /\ UNCHANGED <<origSources, srvVars, sesVars>>

\* records a caller may hand to addConnection
AddRecords ==
    { Conn("a", "h3", 0, "u3", <<"~", "m">>, "", "") }

\* an add that leaves a name alone that the registry already holds
AddConnectionIfAbsent(conn) ==
    /\ connections' = IF MapHas(connections, conn.name) THEN connections
                      ELSE MapSet(connections, conn.name, Normalise(conn))
    /\ hist' = [op |-> "add", name |-> "", ret |-> FALSE]
    /\ UNCHANGED <<sources, origSources, srvVars, sesVars>>

AddConnection(conn) ==
    /\ connections' = MapSet(connections, conn.name, Normalise(conn))
    /\ hist' = [op |-> "add", name |-> "", ret |-> FALSE]
    /\ UNCHANGED <<sources, origSources, srvVars, sesVars>>

RemoveConnection(name) ==
    /\ connections' = MapDelete(connections, name)
    /\ hist' = [op |-> "remove", name |-> name, ret |-> MapHas(connections, name)]
    /\ UNCHANGED <<sources, origSources, srvVars, sesVars>>

(***************************************************************************)
(* config.ts: the config file                                              *)
(***************************************************************************)
\* ConnectionConfig entries the file may hold or add_connection may write
\* (no source field: source is "")
FileA == Conn("a", "h1", 0, "u1", <<"~", "k">>, "", "")

FileA2 == Conn("a", "h4", 2222, "u4", NoPath, "pw4", "")

FileB == Conn("b", "h1", 2222, "u1", NoPath, "pw", "")

\* an add_connection argument without a port
AddNoPort == Conn("a", "h6", 0, "u6", NoPath, "", "")

\* DEFAULT_CONFIG.binarylane.defaultUsername / defaultPrivateKeyPath
DefaultUsername == "root"

DefaultKeyPath == <<"~", ".ssh", "id_ed25519">>

Config(conns, enabled, token) ==
    [connections |-> conns, enabled |-> enabled, apiToken |-> token,
     defaultUsername |-> DefaultUsername, defaultPrivateKeyPath |-> DefaultKeyPath]

\* config.connections.filter(c => c.name !== name)
FilterOut(conns, name) == SelectSeq(conns, LAMBDA c : c.name # name)

\* an add that appends and leaves an earlier entry of the name in place
addConnectionToConfigAppendOnly(config, conn) ==
    [config EXCEPT !.connections = Append(@, conn)]

\* the places of the entries named `name`
PlacesNamed(conns, name) == { i \in 1..Len(conns) : conns[i].name = name }

\* an add that takes out only the first entry of the name
addConnectionToConfigDropFirst(config, conn) ==
    LET old == config.connections
        hits == PlacesNamed(old, conn.name)
        first == CHOOSE i \in hits : \A j \in hits : i <= j
        kept == IF hits = {} THEN old
                ELSE [i \in 1..(Len(old) - 1) |-> IF i < first THEN old[i] ELSE old[i + 1]]
    IN  [config EXCEPT !.connections = Append(kept, conn)]

\* addConnectionToConfig: the updated config, which saveConfig writes
addConnectionToConfig(config, conn) ==
    [config EXCEPT !.connections = Append(FilterOut(@, conn.name), conn)]

\* config.connections.some(c => c.name === name)
InConfig(config, name) ==
    \E i \in 1..Len(config.connections) : config.connections[i].name = name

\* a remove that writes the config back as it was
removeConnectionFromConfigKept(config, name) == config

\* removeConnectionFromConfig, for a name the config holds
removeConnectionFromConfig(config, name) ==
    [config EXCEPT !.connections = FilterOut(@, name)]

\* a redaction that hides the token and leaves the passwords
redactTokenOnly(config) ==
    [config EXCEPT !.apiToken = IF @ # "" THEN "***" ELSE ""]

\* redactConfig: a truthy secret becomes '***', a falsy one undefined
redactConfig(config) ==
    [config EXCEPT
        !.apiToken = IF @ # "" THEN "***" ELSE "",
        !.connections =
            [i \in 1..Len(@) |-> [@[i] EXCEPT !.password = IF @ # "" THEN "***" ELSE ""]]]

(***************************************************************************)
(* binarylane.ts: discovery                                                *)
(***************************************************************************)
Server(n, st, ip) == [name |-> n, status |-> st, publicIp |-> ip]

\* what the BinaryLane API may answer: a failure, or the servers of the account
\* (publicIp "": the server has no public IPv4 network)
ApiAnswers ==
    { [ok |-> FALSE, servers |-> <<>>],
      [ok |-> TRUE,  servers |-> <<>>],
      [ok |-> TRUE,  servers |-> <<Server("a", "active", "ip1"),
                                   Server("c", "active", "ip2")>>],
      [ok |-> TRUE,  servers |-> <<Server("c", "off", "ip2"),
                                   Server("b", "active", "")>>] }

\* the loop body of discoverBinaryLaneServers over all pages
Discovered(servers, user, keyPath) ==
    LET keep == SelectSeq(servers, LAMBDA sv : sv.status = "active" /\ sv.publicIp # "")
    IN  [i \in 1..Len(keep) |->
            Conn(keep[i].name, keep[i].publicIp, DefaultPort, user, keyPath, "", "binarylane")]

(***************************************************************************)
(* index.ts: reloadConnections                                             *)
(***************************************************************************)
\* config.connections.map(c => ({...c, port: c.port || 22, source: 'config'}))
configConnections(config) ==
    [i \in 1..Len(config.connections) |->
        [config.connections[i] EXCEPT !.port = PortOrDefault(@), !.source = "config"]]

\* config.binarylane.apiToken || process.env.BINARYLANE_API_TOKEN
blToken(config) == IF config.apiToken # "" THEN config.apiToken ELSE envToken

WillDiscover(config) == config.enabled /\ blToken(config) # ""

\* a merge that puts the environment before the config file
ReloadSourcesEnvFirst(cc, env, bl) == <<env, cc, bl>>

\* the argument of loadConnections: [configConnections, envConnections, blConnections]
ReloadSources(cc, env, bl) == <<cc, env, bl>>

\* no answer: taken / map for list_connections, got / config for get_config,
\* refused for a remove_connection that answered success: false, failed for
\* the request whose reload has just logged `BinaryLane auto-discovery failed`
\* (0: none)
NoObs == [taken |-> FALSE, map |-> EmptyMap, srcs |-> <<>>, inflight |-> FALSE,
          got |-> FALSE, config |-> Config(<<>>, FALSE, ""), refused |-> FALSE,
          failed |-> 0]

\* a reload that empties the registry before it awaits discovery
ClearedAwaiting(conns) == EmptyMap

\* the registry while reloadConnections is suspended awaiting discovery
RegistryAwaiting(conns) == conns

\* the argument of a call that has none
NoInput == Conn("", "", 0, "", NoPath, "", "")

\* a request slot: kind and pc say which handler runs and where it stands, cc
\* is reloadConnections' local configConnections; input (the call's argument)
\* and overlap (another request was in flight at some time during this one)
\* are history
Idle == [kind |-> "idle", pc |-> "idle", cc |-> <<>>, input |-> NoInput,
         overlap |-> FALSE]

\* the slots after request r began as `slot`: the requests in flight overlap it
Began(r, slot) ==
    [q \in DOMAIN reqs |->
        IF q = r
        THEN [slot EXCEPT !.overlap = \E o \in DOMAIN reqs : o # r /\ reqs[o].pc # "idle"]
        ELSE IF reqs[q].pc # "idle" THEN [reqs[q] EXCEPT !.overlap = TRUE]
        ELSE reqs[q]]

\* reloadConnections up to its await (or to its end when nothing is awaited),
\* called by request r of the given kind after `config` was read from the file
BeginReload(r, kind, config, input) ==
    LET cc == configConnections(config)
        slot == [Idle EXCEPT !.kind = kind, !.input = input]
    IN  IF WillDiscover(config)
        THEN /\ reqs' = Began(r, [slot EXCEPT !.pc = "discovering", !.cc = cc])
             /\ connections' = RegistryAwaiting(connections)
             /\ UNCHANGED lastSources
        ELSE /\ reqs' = Began(r, [slot EXCEPT !.pc = "loaded"])
             /\ connections' = loadConnections(ReloadSources(cc, envConns, <<>>)).m
             /\ lastSources' = ReloadSources(cc, envConns, <<>>)

\* a reload without the try / catch: a rejected discovery ends it before
\* loadConnections
DiscoveryReturnsUncaught(r, answer) ==
    /\ reqs[r].pc = "discovering"
    /\ IF answer.ok
       THEN LET srcs == ReloadSources(reqs[r].cc, envConns,
                                      Discovered(answer.servers, configFile.defaultUsername,
                                                 configFile.defaultPrivateKeyPath))
            IN  /\ connections' = loadConnections(srcs).m
                /\ lastSources' = srcs
       ELSE UNCHANGED <<connections, lastSources>>
    /\ reqs' = [reqs EXCEPT ![r].pc = "loaded", ![r].cc = <<>>]
    /\ obs' = [NoObs EXCEPT !.failed = IF answer.ok THEN 0 ELSE r]
    /\ UNCHANGED <<configFile, envConns, envToken, regVars, sesVars>>

\* discovery settles (resolved with the servers, or rejected and caught):
\* reloadConnections resumes and calls loadConnections
DiscoveryReturns(r, answer) ==
    /\ reqs[r].pc = "discovering"
    /\ LET bl == IF answer.ok
                 THEN Discovered(answer.servers, configFile.defaultUsername,
                                 configFile.defaultPrivateKeyPath)
                 ELSE <<>>
           srcs == ReloadSources(reqs[r].cc, envConns, bl)
       IN  /\ connections' = loadConnections(srcs).m
           /\ lastSources' = srcs
    /\ reqs' = [reqs EXCEPT ![r].pc = "loaded", ![r].cc = <<>>]
    /\ obs' = [NoObs EXCEPT !.failed = IF answer.ok THEN 0 ELSE r]
    /\ UNCHANGED <<configFile, envConns, envToken, regVars, sesVars>>

(***************************************************************************)
(* handlers.ts: the tool handlers                                          *)
(***************************************************************************)
Free(r) == reqs[r].pc = "idle"

\* refresh_connections
StartRefresh(r) ==
    /\ Free(r)
    /\ BeginReload(r, "refresh", configFile, NoInput)
    /\ obs' = NoObs
    /\ UNCHANGED <<configFile, envConns, envToken, regVars, sesVars>>

\* what a caller may pass to add_connection (port 0: omitted, the schema's
\* default 22 applies)
AddInputs == {FileA2, AddNoPort}

\* addConnectionSchema.parse: port defaults to 22
ParsedAdd(input) == [input EXCEPT !.port = IF @ = 0 THEN DefaultPort ELSE @]

\* add_connection up to the await inside reloadConnections
StartAdd(r, input) ==
    /\ Free(r)
    /\ LET updated == addConnectionToConfig(configFile, ParsedAdd(input))
       IN  /\ configFile' = updated
           /\ BeginReload(r, "add", updated, input)
    /\ obs' = NoObs
    /\ UNCHANGED <<envConns, envToken, regVars, sesVars>>

\* remove_connection up to the await inside reloadConnections; for a name the
\* config file does not hold it returns at once
\* a remove that answers success: false and still takes the name out of the
\* registry
StartRemoveFromRegistry(r, name) ==
    /\ Free(r)
    /\ IF InConfig(configFile, name)
       THEN LET updated == removeConnectionFromConfig(configFile, name)
            IN  /\ configFile' = updated
                /\ BeginReload(r, "remove", updated, [NoInput EXCEPT !.name = name])
                /\ obs' = NoObs
       ELSE /\ connections' = MapDelete(connections, name)
            /\ UNCHANGED <<reqs, configFile, lastSources>>
            /\ obs' = [NoObs EXCEPT !.refused = TRUE]
    /\ UNCHANGED <<envConns, envToken, regVars, sesVars>>

StartRemove(r, name) ==
    /\ Free(r)
    /\ IF InConfig(configFile, name)
       THEN LET updated == removeConnectionFromConfig(configFile, name)
            IN  /\ configFile' = updated
                /\ BeginReload(r, "remove", updated, [NoInput EXCEPT !.name = name])
                /\ obs' = NoObs
       ELSE \* { success: false, ... } is returned
            /\ UNCHANGED <<reqs, configFile, connections, lastSources>>
            /\ obs' = [NoObs EXCEPT !.refused = TRUE]
    /\ UNCHANGED <<envConns, envToken, regVars, sesVars>>

\* the handler's code after `await ctx.reloadConnections()`: it returns
\* { success: true, ... } and the call is over
Finish(r) ==
    /\ reqs[r].pc = "loaded"
    /\ reqs' = [reqs EXCEPT ![r] = Idle]
    /\ obs' = NoObs
    /\ UNCHANGED <<connections, configFile, envConns, envToken, lastSources, regVars, sesVars>>

\* list_connections: a synchronous read of the registry (getConnection reads
\* the same map); srcs and inflight are history: the lists last merged and
\* whether a reload was suspended when the read ran
ReadRegistry ==
    /\ obs' = [NoObs EXCEPT
                  !.taken = TRUE, !.map = connections, !.srcs = lastSources,
                  !.inflight = \E r \in DOMAIN reqs : reqs[r].pc = "discovering"]
    /\ UNCHANGED <<connections, configFile, envConns, envToken, reqs, lastSources, regVars, sesVars>>

\* the call variables in a specification without operation calls
SessionUnused == calls = <<>> /\ fs = {} /\ disk = <<>>

\* the history of the registry specification, where it is not used
RegistryUnused == sources = <<>> /\ origSources = <<>> /\ hist = NoHist

\* the server variables in a specification that does not use the server
ServerUnused ==
    /\ configFile = Config(<<>>, FALSE, "")
    /\ envConns = <<>>
    /\ envToken = ""
    /\ reqs = <<>>
    /\ obs = NoObs
    /\ lastSources = <<>>

(***************************************************************************)
(* SpecServer: the running server. main() has awaited the first            *)
(* reloadConnections before any request is served; then tool calls arrive  *)
(* and interleave at their awaits.                                         *)
(***************************************************************************)
EnvA == Conn("a", "h2", 2222, "u2", NoPath, "pw", "env")

EnvC == Conn("c", "h5", 0, "u5", <<"~", "k">>, "", "env")

EnvBad == Conn("b", "", 0, "u5", NoPath, "", "env")

\* SSHClientManager.loadFromEnv(): [] for an unset or unparsable variable
EnvChoices == { <<>>, <<EnvBad, EnvA, EnvC>> }

FileChoices == { <<>>, <<FileB, FileA>> }

\* binarylane.enabled, binarylane.apiToken, BINARYLANE_API_TOKEN
TokenChoices ==
    { [enabled |-> TRUE,  apiToken |-> "",    envToken |-> "envtok"],
      [enabled |-> FALSE, apiToken |-> "tok", envToken |-> ""],
      [enabled |-> TRUE,  apiToken |-> "",    envToken |-> ""] }

SrvNames == {"a", "c"}

Slots == 1..MaxReqs

InitServer ==
    /\ \E conns \in FileChoices, t \in TokenChoices :
           /\ configFile = Config(conns, t.enabled, t.apiToken)
           /\ envToken = t.envToken
    /\ envConns \in EnvChoices
    /\ reqs = [r \in Slots |-> Idle]
    /\ obs = NoObs
    /\ \E answer \in ApiAnswers :
           LET bl == IF WillDiscover(configFile) /\ answer.ok
                     THEN Discovered(answer.servers, configFile.defaultUsername,
                                     configFile.defaultPrivateKeyPath)
                     ELSE <<>>
           IN  lastSources = ReloadSources(configConnections(configFile), envConns, bl)
    /\ connections = loadConnections(lastSources).m
    /\ RegistryUnused
    /\ SessionUnused

NextServer ==
    \/ \E r \in Slots : StartRefresh(r)
    \/ \E r \in Slots, input \in AddInputs : StartAdd(r, input)
    \/ \E r \in Slots, n \in SrvNames : StartRemove(r, n)
    \/ \E r \in Slots, answer \in ApiAnswers : DiscoveryReturns(r, answer)
    \/ \E r \in Slots : Finish(r)
    \/ ReadRegistry

SpecServer == InitServer /\ [][NextServer]_vars

\* C9: a read of the registry never sees a partial merge: at every point where
\* a handler can run, and in what every list_connections returned, also while a
\* reload is suspended awaiting discovery, the map is the complete merge of the
\* source lists of the last loadConnections that ran (the pre-reload map until
\* the in-flight reload merges, the post-reload map after).
C9_ReadsSeeCompleteMerge ==
    /\ connections = loadConnections(lastSources).m
    /\ obs.taken => obs.map = loadConnections(obs.srcs).m

\* a read that ran while a reload was suspended, one that had read a config
\* differing from the one the registry was merged from
C9_Witness ==
    /\ obs.taken /\ obs.inflight
    /\ obs.map # EmptyMap
    /\ \E r \in Slots : reqs[r].pc = "discovering" /\ reqs[r].cc # obs.srcs[1]

\* the complete records named x that the last merge got from the source `tag`
DefinedBy(tag, x) ==
    { p \in UNION { {<<s, i>> : i \in 1..Len(lastSources[s])} : s \in 1..Len(lastSources) } :
        LET c == lastSources[p[1]][p[2]]
        IN  c.source = tag /\ c.name = x /\ c.name # "" /\ c.host # "" /\ c.username # "" }

\* the first of them in the order of its source
FirstBy(tag, x) ==
    LET p == CHOOSE p \in DefinedBy(tag, x) :
                 \A q \in DefinedBy(tag, x) : p[2] <= q[2]
    IN  lastSources[p[1]][p[2]]

\* record r is definition d as the merge stores it
IsDefinition(r, d) ==
    /\ r.name = d.name /\ r.host = d.host /\ r.username = d.username
    /\ r.password = d.password /\ r.source = d.source
    /\ r.port = IF d.port = 0 THEN 22 ELSE d.port
    /\ (d.privateKeyPath = <<>>) <=> (r.privateKeyPath = <<>>)

\* C19: in the registry a reload leaves, a name the config file defines is the
\* config file's (first) definition of it, with source 'config', whatever the
\* environment and discovery give for that name; a name the environment and
\* discovery both define and the config file does not is the environment's
\* definition, with source 'env'.
C19_SourcePriority ==
    \A x \in Names \cup SrvNames :
        /\ DefinedBy("config", x) # {} =>
              /\ MapHas(connections, x)
              /\ IsDefinition(getConnection(x), FirstBy("config", x))
              /\ getConnection(x).source = "config"
        /\ (DefinedBy("config", x) = {} /\ DefinedBy("env", x) # {}
              /\ DefinedBy("binarylane", x) # {}) =>
              /\ MapHas(connections, x)
              /\ IsDefinition(getConnection(x), FirstBy("env", x))
              /\ getConnection(x).source = "env"

\* a reload after discovery returned: a is defined by all three sources and is
\* the config file's, c by the environment and discovery and is the
\* environment's
C19_Witness ==
    /\ \E r \in Slots : reqs[r].pc = "loaded" /\ reqs[r].kind = "refresh"
    /\ DefinedBy("config", "a") # {} /\ DefinedBy("env", "a") # {}
    /\ DefinedBy("binarylane", "a") # {}
    /\ MapHas(connections, "a") /\ getConnection("a").source = "config"
    /\ DefinedBy("config", "c") = {} /\ DefinedBy("env", "c") # {}
    /\ DefinedBy("binarylane", "c") # {}
    /\ MapHas(connections, "c") /\ getConnection("c").source = "env"

C28_RemoveUnknownRefused ==
    [][ \A r \in Slots, n \in SrvNames :
          (StartRemove(r, n) /\ ~InConfig(configFile, n)) =>
              /\ obs'.refused
              /\ configFile' = configFile
              /\ connections' = connections
              /\ lastSources' = lastSources
              /\ reqs' = reqs ]_vars

\* a remove_connection was refused for c, which the registry holds from the
\* environment
C28_Witness ==
    /\ obs.refused
    /\ ~InConfig(configFile, "c")
    /\ MapHas(connections, "c") /\ getConnection("c").source = "env"

C31_LatestConfigWins ==
    (\A r \in Slots : Free(r)) =>
        /\ lastSources[1] = configConnections(configFile)
        /\ connections =
              loadConnections(ReloadSources(configConnections(configFile), envConns,
                                            lastSources[3])).m

\* the registry is the merge of the first two lists of the last load alone:
\* a name resolves to its first complete definition in the config list, else
\* in the environment's, else to nothing
TwoSourceMerge ==
    /\ Len(lastSources) = 3 /\ lastSources[2] = envConns /\ lastSources[3] = <<>>
    /\ \A i \in 1..Len(connections) : connections[i].k \in Names \cup SrvNames
    /\ \A x \in Names \cup SrvNames :
          IF DefinedBy("config", x) # {}
          THEN MapHas(connections, x) /\ IsDefinition(getConnection(x), FirstBy("config", x))
          ELSE IF DefinedBy("env", x) # {}
          THEN MapHas(connections, x) /\ IsDefinition(getConnection(x), FirstBy("env", x))
          ELSE ~MapHas(connections, x)

\* C34: with discovery disabled or without a token no reload ever awaits
\* discovery and the registry is always the merge of the config file and the
\* environment; and when a reload's discovery has just failed, that reload
\* has completed (its handler is about to return success) and the registry is
\* the merge of the config list it read and the environment, which is the
\* config file as it now is unless another request overlapped.
C34_DiscoveryFailureContained ==
    /\ ~WillDiscover(configFile) =>
          /\ \A r \in Slots : reqs[r].pc # "discovering"
          /\ lastSources[1] = configConnections(configFile)
          /\ TwoSourceMerge
    /\ obs.failed # 0 =>
          /\ reqs[obs.failed].pc = "loaded"
          /\ TwoSourceMerge
          /\ ~reqs[obs.failed].overlap => lastSources[1] = configConnections(configFile)

\* the discovery of an add_connection's reload has just failed: the registry
\* holds the added a and the environment's c, and nothing discovered
C34_Witness ==
    /\ obs.failed # 0
    /\ reqs[obs.failed].kind = "add" /\ ~reqs[obs.failed].overlap
    /\ MapHas(connections, "a") /\ MapHas(connections, "c")
    /\ getConnection("a").source = "config" /\ getConnection("a").host = "h4"
    /\ getConnection("c").source = "env"
    /\ WillDiscover(configFile)

(***************************************************************************)
(* SpecConfig: the config file under addConnectionToConfig,                 *)
(* removeConnectionFromConfig and get_config, for every file of at most    *)
(* MaxSrcLen entries (a file edited by hand may repeat a name)             *)
(***************************************************************************)
FileC == Conn("c", "h7", 22, "u7", <<"~", "k">>, "", "")

FileEntries == {FileA, FileA2, FileB, FileC}

\* addConnectionToConfig(config, conn) and saveConfig; hist.ret: the file
\* held the name
AddConnectionToConfig(conn) ==
    /\ configFile' = addConnectionToConfig(configFile, conn)
    /\ obs' = NoObs
    /\ hist' = [op |-> "configAdd", name |-> conn.name,
                ret |-> InConfig(configFile, conn.name)]
    /\ UNCHANGED <<connections, envConns, envToken, reqs, lastSources,
                   sources, origSources, sesVars>>

\* removeConnectionFromConfig(config, name): null, and nothing is written,
\* for a name the file does not hold
RemoveConnectionFromConfig(name) ==
    /\ configFile' = IF InConfig(configFile, name)
                     THEN removeConnectionFromConfig(configFile, name)
                     ELSE configFile
    /\ obs' = NoObs
    /\ hist' = [op |-> "configRemove", name |-> name,
                ret |-> InConfig(configFile, name)]
    /\ UNCHANGED <<connections, envConns, envToken, reqs, lastSources,
                   sources, origSources, sesVars>>

\* get_config: loadConfig, redactConfig
GetConfig ==
    /\ obs' = [NoObs EXCEPT !.got = TRUE, !.config = redactConfig(configFile)]
    /\ UNCHANGED <<connections, configFile, envConns, envToken, reqs, lastSources,
                   regVars, sesVars>>

InitConfig ==
    /\ \E conns \in SeqsUpTo(FileEntries, MaxSrcLen), t \in TokenChoices :
           configFile = Config(conns, t.enabled, t.apiToken)
    /\ obs = NoObs
    /\ connections = EmptyMap
    /\ envConns = <<>> /\ envToken = "" /\ reqs = <<>> /\ lastSources = <<>>
    /\ RegistryUnused
    /\ SessionUnused

NextConfig ==
    \/ \E conn \in FileEntries : AddConnectionToConfig(conn)
    \/ \E n \in {"a", "b", "c"} : RemoveConnectionFromConfig(n)
    \/ GetConfig

SpecConfig == InitConfig /\ [][NextConfig]_vars

\* values a secret may have
SecretValues == {"pw", "pw4", "tok", "other"}

\* the configs that differ from `config` at most in the values of its
\* non-empty secrets
SecretVariants(config) ==
    { v \in [connections : [1..Len(config.connections) -> 
                               { [c EXCEPT !.password = p] :
                                   c \in { config.connections[i] : i \in 1..Len(config.connections) },
                                   p \in SecretValues \cup {""} }],
             enabled : {config.enabled},
             apiToken : SecretValues \cup {""},
             defaultUsername : {config.defaultUsername},
             defaultPrivateKeyPath : {config.defaultPrivateKeyPath}] :
        /\ (v.apiToken = "") <=> (config.apiToken = "")
        /\ \A i \in 1..Len(config.connections) :
              /\ [v.connections[i] EXCEPT !.password = ""] =
                    [config.connections[i] EXCEPT !.password = ""]
              /\ (v.connections[i].password = "") <=> (config.connections[i].password = "") }

\* C23: what get_config returns holds no secret value: a non-empty apiToken and
\* every non-empty password read '***' (an empty one stays absent), every
\* other field is the file's, and every config that differs from the file only
\* in the values of its non-empty secrets gives the same answer.
C23_NoSecretReturned ==
    obs.got =>
        /\ obs.config.apiToken = (IF configFile.apiToken # "" THEN "***" ELSE "")
        /\ obs.config.enabled = configFile.enabled
        /\ obs.config.defaultUsername = configFile.defaultUsername
        /\ obs.config.defaultPrivateKeyPath = configFile.defaultPrivateKeyPath
        /\ Len(obs.config.connections) = Len(configFile.connections)
        /\ \A i \in 1..Len(configFile.connections) :
              LET c == configFile.connections[i]
                  o == obs.config.connections[i]
              IN  /\ o.password = (IF c.password # "" THEN "***" ELSE "")
                  /\ [o EXCEPT !.password = ""] = [c EXCEPT !.password = ""]
        /\ \A v \in SecretVariants(configFile) : redactConfig(v) = obs.config

\* the file has a token, a connection with a password and one without
C23_Witness ==
    /\ obs.got
    /\ configFile.apiToken = "tok"
    /\ \E i, j \in 1..Len(configFile.connections) :
          /\ configFile.connections[i].password = "pw"
          /\ configFile.connections[j].password = ""
          /\ obs.config.connections[i].password = "***"
          /\ obs.config.connections[j].password = ""
    /\ obs.config.apiToken = "***"

\* the entries of a list that are not named `name`, in their order
OthersThan(conns, name) == SelectSeq(conns, LAMBDA c : c.name # name)

UniqueNames(conns) ==
    \A i, j \in 1..Len(conns) : conns[i].name = conns[j].name => i = j

\* C30: after addConnectionToConfig(config, conn) the list holds exactly one
\* entry named conn.name, which is conn, and the entries of other names are
\* the ones it held, unchanged and in their order; removeConnectionFromConfig
\* takes out the entries of its name and leaves the others likewise; so a list
\* with unique names has unique names after every add and remove.
C30_AddReplacesInFile ==
    [][ /\ \A conn \in FileEntries :
              AddConnectionToConfig(conn) =>
                  LET new == configFile'.connections
                  IN  /\ Cardinality(PlacesNamed(new, conn.name)) = 1
                      /\ \E i \in 1..Len(new) : new[i] = conn
                      /\ OthersThan(new, conn.name) =
                            OthersThan(configFile.connections, conn.name)
        /\ \A n \in {"a", "b", "c"} :
              RemoveConnectionFromConfig(n) =>
                  /\ PlacesNamed(configFile'.connections, n) = {}
                  /\ OthersThan(configFile'.connections, n) =
                        OthersThan(configFile.connections, n)
        /\ UniqueNames(configFile.connections) =>
              UniqueNames(configFile'.connections) ]_vars

\* a was added to a file that held a, b and c: the new a is last, after b and c
C30_Witness ==
    /\ hist.op = "configAdd" /\ hist.name = "a" /\ hist.ret
    /\ configFile.connections = <<FileB, FileC, FileA2>>

(***************************************************************************)
(* Spec: the registry under loadConnections / addConnection /              *)
(* removeConnection, for every pair of source lists [S1, S2]               *)
(***************************************************************************)
Init ==
    /\ connections = EmptyMap
    /\ \E s1 \in SrcLists("config"), s2 \in SrcLists("env") :
           sources = <<s1, s2>>
    /\ origSources = sources
    /\ hist = NoHist
    /\ ServerUnused
    /\ SessionUnused

Next ==
    \/ LoadConnections
    \/ \E c \in AddRecords : AddConnection(c)
    \/ \E n \in Names : RemoveConnection(n)

Spec == Init /\ [][Next]_vars

(***************************************************************************)
(* Properties of the registry (checked under Spec)                         *)
(***************************************************************************)
Defines(list, x) ==
    \E i \in 1..Len(list) : list[i].name = x /\ ~Invalid(list[i])

FirstDef(list, x) ==
    CHOOSE i \in 1..Len(list) :
        /\ list[i].name = x /\ ~Invalid(list[i])
        /\ \A j \in 1..(i - 1) : ~(list[j].name = x /\ ~Invalid(list[j]))

JustLoaded == hist.op \in {"load", "reload"}

\* C1: after loadConnections([S1, S2]), a name x that S1 and S2 both define
\* resolves to S1's (first) record for x itself: the registry holds that very
\* record, and its host, username, password and source are those S1 gave, its
\* port is S1's (22 for an absent one) and its key path is S1's, tilde
\* expanded; nothing comes from S2's record.
C1_PriorityMerge ==
    JustLoaded =>
        \A x \in Names :
            (Defines(origSources[1], x) /\ Defines(origSources[2], x)) =>
                LET i == FirstDef(origSources[1], x)
                    o == origSources[1][i]
                    r == getConnection(x)
                IN  /\ r = sources[1][i]
                    /\ r.name = x
                    /\ r.host = o.host
                    /\ r.username = o.username
                    /\ r.password = o.password
                    /\ r.source = o.source
                    /\ r.port = (IF o.port = 0 THEN 22 ELSE o.port)
                    /\ r.privateKeyPath =
                           (IF o.privateKeyPath # <<>> /\ Head(o.privateKeyPath) = "~"
                            THEN HomeDir \o Tail(o.privateKeyPath)
                            ELSE o.privateKeyPath)

\* a load after which x is defined by both lists, by records that differ in
\* every field
C1_Witness ==
    /\ JustLoaded
    /\ \E x \in Names :
           /\ Defines(origSources[1], x) /\ Defines(origSources[2], x)
           /\ LET o1 == origSources[1][FirstDef(origSources[1], x)]
                  o2 == origSources[2][FirstDef(origSources[2], x)]
              IN  /\ o1.host # o2.host /\ o1.port # o2.port
                  /\ o1.username # o2.username /\ o1.password # o2.password
                  /\ o1.privateKeyPath # o2.privateKeyPath
                  /\ o1.source # o2.source
                  /\ getConnection(x).host = o1.host

\* C11: whatever loadConnections, addConnection and removeConnection did,
\* listConnections holds no two records with the same name, no key occurs
\* twice, and every record is stored under its own name.
C11_NamesUnique ==
    /\ \A i, j \in 1..Len(listConnections) :
           i # j => listConnections[i].name # listConnections[j].name
    /\ \A i, j \in 1..Len(connections) :
           i # j => connections[i].k # connections[j].k
    /\ \A i \in 1..Len(connections) : connections[i].k = connections[i].v.name

\* addConnection replaced the record of a name that a load had put in a map of
\* two names
C11_Witness ==
    /\ hist.op = "add"
    /\ Len(connections) = 2
    /\ \E i \in 1..2 : connections[i].k = "a" /\ connections[i].v.host = "h3"

\* a record the merge accepts, as the claims word it
Complete(c) == c.name # "" /\ c.host # "" /\ c.username # ""

\* the places <<s, i>> of the complete records named x, and the first of them
\* in merge order (source by source, each in list order)
PlacesOf(lists, x) ==
    { p \in UNION { {<<s, i>> : i \in 1..Len(lists[s])} : s \in 1..Len(lists) } :
        /\ lists[p[1]][p[2]].name = x
        /\ Complete(lists[p[1]][p[2]]) }

Before(p, q) == p[1] < q[1] \/ (p[1] = q[1] /\ p[2] < q[2])

FirstPlace(lists, x) ==
    CHOOSE p \in PlacesOf(lists, x) :
        \A q \in PlacesOf(lists, x) : q = p \/ Before(p, q)

\* C12: the merge always completes, and what it leaves is decided by the
\* complete records alone: a name is in the registry exactly when some source
\* holds a complete record of that name, and then it resolves to the first such
\* record in merge order, also when incomplete records of the same name (or
\* others) come before it; an incomplete record is left as it was given.
C12_InvalidSkipped ==
    JustLoaded =>
        /\ ~MapHas(connections, "")
        /\ \A x \in Names :
              /\ MapHas(connections, x) <=> PlacesOf(origSources, x) # {}
              /\ PlacesOf(origSources, x) # {} =>
                    LET p == FirstPlace(origSources, x)
                        o == origSources[p[1]][p[2]]
                        r == getConnection(x)
                    IN  /\ r = sources[p[1]][p[2]]
                        /\ r.host = o.host /\ r.username = o.username
                        /\ r.source = o.source
        /\ \A s \in 1..Len(sources) : \A i \in 1..Len(sources[s]) :
              ~Complete(origSources[s][i]) => sources[s][i] = origSources[s][i]

\* the first source holds only an incomplete record named a (no host); the
\* second source's complete record for a is the one accepted
C12_Witness ==
    /\ JustLoaded
    /\ Len(origSources[1]) = 1
    /\ origSources[1][1].name = "a" /\ origSources[1][1].host = ""
    /\ MapHas(connections, "a")
    /\ getConnection("a").source = "env"

\* C13: after loadConnections every accepted record that came without a port
\* (or with port 0) has port 22, and every accepted record that came with a
\* non-zero port has that port.
C13_DefaultPort ==
    JustLoaded =>
        \A x \in Names :
            PlacesOf(origSources, x) # {} =>
                LET p == FirstPlace(origSources, x)
                    o == origSources[p[1]][p[2]]
                IN  /\ o.port = 0 => getConnection(x).port = 22
                    /\ o.port # 0 => getConnection(x).port = o.port

\* one record accepted with the default port and one with its own
C13_Witness ==
    /\ JustLoaded
    /\ \E x, y \in Names :
          /\ PlacesOf(origSources, x) # {} /\ PlacesOf(origSources, y) # {}
          /\ LET p == FirstPlace(origSources, x)
                 q == FirstPlace(origSources, y)
             IN  /\ origSources[p[1]][p[2]].port = 0
                 /\ origSources[q[1]][q[2]].port = 2222
          /\ getConnection(x).port = 22
          /\ getConnection(y).port = 2222

\* C21: whatever the registry held before (records put in by addConnection,
\* names taken out by removeConnection), after loadConnections(L) it is the
\* merge of L into an empty registry: it holds no name that L does not define,
\* so a record that addConnection put in and L does not define is gone.
C21_WholesaleReload ==
    JustLoaded =>
        /\ connections = LoadFrom([m |-> EmptyMap, l |-> sources], 1, 1).m
        /\ \A i \in 1..Len(connections) :
              PlacesOf(sources, connections[i].k) # {}

\* a load that discarded the record addConnection had put in under a, a name
\* the lists do not define
C21_Witness ==
    /\ hist.op = "load" /\ hist.ret
    /\ PlacesOf(sources, "a") = {}
    /\ ~MapHas(connections, "a")
    /\ connections # EmptyMap

\* C22: after addConnection(record) the registry holds under record.name that
\* record (port 22 for an absent port, a leading tilde expanded), whatever was
\* held under the name before and from whichever source; every other name
\* resolves to what it did.
C22_AddOverwrites ==
    [][ hist'.op = "add" =>
          \E c \in AddRecords :
              LET g == MapGet(connections', c.name)
              IN  /\ MapHas(connections', c.name)
                  /\ g.name = c.name /\ g.host = c.host /\ g.username = c.username
                  /\ g.password = c.password /\ g.source = c.source
                  /\ g.port = IF c.port = 0 THEN 22 ELSE c.port
                  /\ g.privateKeyPath =
                        IF c.privateKeyPath # <<>> /\ Head(c.privateKeyPath) = "~"
                        THEN <<"home">> \o Tail(c.privateKeyPath)
                        ELSE c.privateKeyPath
                  /\ \A x \in Names \ {c.name} :
                        MapGet(connections', x) = MapGet(connections, x) ]_vars

\* addConnection replaced the config file's record for a; b is the record
\* the environment gave
C22_Witness ==
    /\ hist.op = "add"
    /\ PlacesOf(sources, "a") # {}
    /\ sources[FirstPlace(sources, "a")[1]][FirstPlace(sources, "a")[2]].source = "config"
    /\ MapHas(connections, "a")
    /\ getConnection("a").host = "h3" /\ getConnection("a").port = 22
    /\ MapHas(connections, "b") /\ getConnection("b").source = "env"

\* C4 (as claimed): removeConnection(name), for a name held only through a
\* non-manual source (environment or discovery), returns false and leaves the
\* registry unchanged.
C4_RemoveOnlyManual ==
    [][ ( /\ hist'.op = "remove"
          /\ MapHas(connections, hist'.name)
          /\ MapGet(connections, hist'.name).source \in {"env", "binarylane"} )
        => ( hist'.ret = FALSE /\ connections' = connections ) ]_vars

\* C10: loading the same source lists again changes nothing: the map (names,
\* every field of every record, order) after the second loadConnections(L)
\* equals the map after the first, and so do the lists themselves.
C10_ReloadIdempotent ==
    [][ hist'.op = "reload" => (connections' = connections /\ sources' = sources) ]_vars

\* a second load of lists whose records the first load normalised in place
\* (a tilde expanded and a port defaulted)
C10_Witness ==
    /\ hist.op = "reload"
    /\ \E s \in 1..Len(sources) : \E i \in 1..Len(sources[s]) :
           /\ sources[s][i].privateKeyPath # origSources[s][i].privateKeyPath
           /\ sources[s][i].port # origSources[s][i].port
           /\ MapGet(connections, sources[s][i].name) = sources[s][i]


(***************************************************************************)
(* The operations: one ssh2 Client per call.                               *)
(*                                                                         *)
(* A call record:                                                          *)
(*   op        "none" (slot unused) or the operation                       *)
(*   name      connectionName                                              *)
(*   host      "up" or "silent" (history: the remote end never answers)    *)
(*   client    "none" or "created" (new Client())                          *)
(*   connected client.connect(config) was called                           *)
(*   phase     "none", "connecting", "opening" (client.exec / client.sftp  *)
(*             called, callback pending), "acting" (stream open, or file   *)
(*             operation issued), "finished"                               *)
(*   ended     client.end() was called                                     *)
(*   timer     "none", "armed", "cleared", "fired" (setTimeout)            *)
(*   settled   "pending", "resolved", "rejected": the call's promise       *)
(*   result    what it settled with                                        *)
(*   stdout, stderr   the accumulators (content for readFile)              *)
(*   arrived   history: the chunks in arrival order, each with its stream  *)
(*   exit      history: the exit notification, once it has arrived         *)
(*   config    history: what getConnectConfig gave for this call           *)
(*   connects  history: the number of client.connect calls                 *)
(*   opens     history: the number of client.exec / client.sftp calls      *)
(*   acts      history: the number of file or directory operations issued  *)
(*   errored   history: the client's error event was delivered             *)
(*   late      history: resolve or reject was called on the settled promise*)
(*   firedIn   history: the phase in which the watchdog fired, and whether *)
(*             the call was pending then                                   *)
(***************************************************************************)
Res(tag) == [tag |-> tag, stdout |-> <<>>, stderr |-> <<>>, code |-> 0]

\* no credential resolved yet
NoConfig ==
    [ok |-> FALSE, error |-> "none", host |-> "", port |-> 0, username |-> "",
     privateKey |-> <<>>, password |-> ""]

NoCall ==
    [op |-> "none", name |-> "", host |-> "up", client |-> "none",
     connected |-> FALSE, phase |-> "none", ended |-> FALSE, timer |-> "none",
     settled |-> "pending", result |-> Res("none"),
     stdout |-> <<>>, stderr |-> <<>>,
     arrived |-> <<>>, exit |-> [seen |-> FALSE, has |-> FALSE, code |-> 0],
     config |-> NoConfig, connects |-> 0, opens |-> 0, acts |-> 0,
     errored |-> FALSE, late |-> FALSE, firedIn |-> "none",
     local |-> NoPath, remote |-> NoPath, conn |-> Undefined]

SftpOps == {"read", "list", "upload", "download"}

Ops == {"run", "test"} \cup SftpOps

\* a promise whose later resolve or reject replaces the result
SettleOverwrite(c, how, res) == [c EXCEPT !.settled = how, !.result = res]

\* resolve / reject of the call's promise: only the first one counts
Settle(c, how, res) ==
    IF c.settled # "pending" THEN [c EXCEPT !.late = TRUE]
    ELSE [c EXCEPT !.settled = how, !.result = res]

Resolve(c, res) == Settle(c, "resolved", res)

Reject(c, res) == Settle(c, "rejected", res)

\* clearTimeout(timeoutId)
ClearTimer(c) == [c EXCEPT !.timer = IF @ = "armed" THEN "cleared" ELSE @]

\* client.end()
End(c) == [c EXCEPT !.ended = TRUE]

(***************************************************************************)
(* getConnectConfig: the credential for a record, given the files present  *)
(***************************************************************************)
DefaultKeys ==
    << HomeDir \o <<".ssh", "id_ed25519">>, HomeDir \o <<".ssh", "id_rsa">> >>

RECURSIVE FirstExisting(_, _, _)
FirstExisting(keys, files, i) ==
    IF i > Len(keys) THEN NoPath
    ELSE IF keys[i] \in files THEN keys[i]
    ELSE FirstExisting(keys, files, i + 1)

\* a resolution that falls back to the password, then to the default keys,
\* when the record's key file is missing
getConnectConfigFallback(conn, files) ==
    LET base == [ok |-> TRUE, error |-> "", host |-> conn.host, port |-> conn.port,
                 username |-> conn.username, privateKey |-> NoPath, password |-> ""]
    IN  IF conn.privateKeyPath # NoPath /\ conn.privateKeyPath \in files
        THEN [base EXCEPT !.privateKey = conn.privateKeyPath]
        ELSE IF conn.password # ""
        THEN [base EXCEPT !.password = conn.password]
        ELSE LET key == FirstExisting(DefaultKeys, files, 1)
             IN  IF key = NoPath
                 THEN [base EXCEPT !.ok = FALSE, !.error = "NoAuthentication"]
                 ELSE [base EXCEPT !.privateKey = key]

getConnectConfig(conn, files) ==
    LET base == [ok |-> TRUE, error |-> "", host |-> conn.host, port |-> conn.port,
                 username |-> conn.username, privateKey |-> NoPath, password |-> ""]
    IN  IF conn.privateKeyPath # NoPath
        THEN IF conn.privateKeyPath \notin files
             THEN [base EXCEPT !.ok = FALSE, !.error = "KeyNotFound"]
             ELSE [base EXCEPT !.privateKey = conn.privateKeyPath]
        ELSE IF conn.password # ""
        THEN [base EXCEPT !.password = conn.password]
        ELSE LET key == FirstExisting(DefaultKeys, files, 1)
             IN  IF key = NoPath
                 THEN [base EXCEPT !.ok = FALSE, !.error = "NoAuthentication"]
                 ELSE [base EXCEPT !.privateKey = key]

(***************************************************************************)
(* The start of a call: the code of the operation up to the return of its  *)
(* promise                                                                 *)
(***************************************************************************)
\* a watchdog that only testConnection arms
ArmWatchdogTestOnly(c) == [c EXCEPT !.timer = IF c.op = "test" THEN "armed" ELSE "none"]

\* setTimeout(...) of runCommand and testConnection; the other operations set none
ArmWatchdog(c) == [c EXCEPT !.timer = IF c.op \in {"run", "test"} THEN "armed" ELSE "none"]

\* a connect that asks for the channel at once, without waiting for ready
ConnectAndOpen(c, conn, files) ==
    LET config == getConnectConfig(conn, files)
        d == [c EXCEPT !.config = config]
    IN  IF config.ok
        THEN [d EXCEPT !.connected = TRUE, !.connects = @ + 1,
                       !.phase = IF c.op = "test" THEN "connecting" ELSE "opening",
                       !.opens = IF c.op = "test" THEN @ ELSE @ + 1]
        ELSE IF c.op = "test"
        THEN Resolve(ClearTimer(d), Res("ConfigurationError"))
        ELSE IF c.op = "run"
        THEN Reject(ClearTimer(d), Res(config.error))
        ELSE Reject(d, Res(config.error))

\* a catch that rejects and leaves the watchdog armed
ConnectKeepTimer(c, conn, files) ==
    LET config == getConnectConfig(conn, files)
        d == [c EXCEPT !.config = config]
    IN  IF config.ok
        THEN [d EXCEPT !.connected = TRUE, !.phase = "connecting",
                       !.connects = @ + 1]
        ELSE IF c.op = "test"
        THEN Resolve(d, Res("ConfigurationError"))
        ELSE Reject(d, Res(config.error))

\* the try / catch around getConnectConfig and client.connect
Connect(c, conn, files) ==
    LET config == getConnectConfig(conn, files)
        d == [c EXCEPT !.config = config]
    IN  IF config.ok
        THEN [d EXCEPT !.connected = TRUE, !.phase = "connecting",
                       !.connects = @ + 1]
        ELSE IF c.op = "test"
        THEN Resolve(ClearTimer(d), Res("ConfigurationError"))
        ELSE IF c.op = "run"
        THEN Reject(ClearTimer(d), Res(config.error))
        ELSE Reject(d, Res(config.error))

\* a start that creates the client before it looks the name up
StartCallClientFirst(op, name, host, local, conn, files) ==
    LET c == [NoCall EXCEPT !.op = op, !.name = name, !.host = host, !.client = "created"]
    IN  IF conn = Undefined THEN Reject(c, Res("UnknownConnection"))
        ELSE IF op = "upload" /\ local \notin files
        THEN Reject(c, Res("LocalFileNotFound"))
        ELSE Connect(ArmWatchdog(c), conn, files)

\* an upload that does not look for the local file before it connects
StartCallNoLocalCheck(op, name, host, local, conn, files) ==
    LET c == [NoCall EXCEPT !.op = op, !.name = name, !.host = host]
    IN  IF conn = Undefined THEN Reject(c, Res("UnknownConnection"))
        ELSE Connect(ArmWatchdog([c EXCEPT !.client = "created"]), conn, files)

StartCall(op, name, host, local, conn, files) ==
    LET c == [NoCall EXCEPT !.op = op, !.name = name, !.host = host]
    IN  IF conn = Undefined THEN Reject(c, Res("UnknownConnection"))
        ELSE IF op = "upload" /\ local \notin files
        THEN Reject(c, Res("LocalFileNotFound"))
        ELSE Connect(ArmWatchdog([c EXCEPT !.client = "created"]), conn, files)

(***************************************************************************)
(* The callbacks                                                           *)
(***************************************************************************)
\* a ready handler that looks the name up and resolves the credential again
OnReadyLookup(c) ==
    LET conn == getConnection(c.name)
    IN  IF conn = Undefined
        THEN Reject(End(ClearTimer([c EXCEPT !.phase = "finished"])), Res("UnknownConnection"))
        ELSE IF c.op = "test"
        THEN Resolve(End(ClearTimer([c EXCEPT !.phase = "finished"])), Res("Connected"))
        ELSE [c EXCEPT !.phase = "opening", !.opens = @ + 1,
                       !.config = getConnectConfig(conn, fs)]

\* client.on('ready'): testConnection is done; the others open their channel
OnReady(c) ==
    IF c.op = "test"
    THEN Resolve(End(ClearTimer([c EXCEPT !.phase = "finished"])), Res("Connected"))
    ELSE [c EXCEPT !.phase = "opening", !.opens = @ + 1]

\* a channel callback that closes the client as soon as the operation is issued
OnChannelEndEarly(c, err) ==
    IF err
    THEN IF c.op = "run"
         THEN Reject(End(ClearTimer([c EXCEPT !.phase = "finished"])), Res("ChannelError"))
         ELSE Reject(End([c EXCEPT !.phase = "finished"]), Res("ChannelError"))
    ELSE End([c EXCEPT !.phase = "acting",
                       !.acts = IF c.op \in SftpOps THEN @ + 1 ELSE @])

\* the callback of client.exec / client.sftp
OnChannel(c, err) ==
    IF err
    THEN IF c.op = "run"
         THEN Reject(End(ClearTimer([c EXCEPT !.phase = "finished"])), Res("ChannelError"))
         ELSE Reject(End([c EXCEPT !.phase = "finished"]), Res("ChannelError"))
    ELSE [c EXCEPT !.phase = "acting",
                   !.acts = IF c.op \in SftpOps THEN @ + 1 ELSE @]

\* stream.on('data') / stream.stderr.on('data') / readStream.on('data')
OnData(c, chunk) ==
    [c EXCEPT !.stdout = Append(@, chunk),
              !.arrived = Append(@, [stream |-> "out", chunk |-> chunk])]

\* a stderr handler that appends to the stdout accumulator
OnStderrMixed(c, chunk) ==
    [c EXCEPT !.stdout = Append(@, chunk),
              !.arrived = Append(@, [stream |-> "err", chunk |-> chunk])]

OnStderr(c, chunk) ==
    [c EXCEPT !.stderr = Append(@, chunk),
              !.arrived = Append(@, [stream |-> "err", chunk |-> chunk])]

\* exit.has: the transport reported an exit code
ExitCode(exit) == IF exit.has /\ exit.code # 0 THEN exit.code ELSE 0

\* stream.on('close') of runCommand
OnStreamClose(c, exit) ==
    Resolve(End(ClearTimer([c EXCEPT !.phase = "finished",
                                     !.exit = [seen |-> TRUE, has |-> exit.has,
                                               code |-> exit.code]])),
            [tag |-> "CommandResult", stdout |-> c.stdout, stderr |-> c.stderr,
             code |-> ExitCode(exit)])

\* a callback that reports success whatever the operation reported
OnActionDoneAlways(c, err) ==
    LET d == End([c EXCEPT !.phase = "finished"])
    IN  IF c.op = "read"
        THEN Resolve(d, [Res("Content") EXCEPT !.stdout = c.stdout])
        ELSE Resolve(d, Res("Done"))

\* the callback of fastPut / fastGet / readdir, readStream.on('end') and
\* readStream.on('error')
OnActionDone(c, err) ==
    LET d == End([c EXCEPT !.phase = "finished"])
    IN  IF err THEN Reject(d, Res("RemoteError"))
        ELSE IF c.op = "read"
        THEN Resolve(d, [Res("Content") EXCEPT !.stdout = c.stdout])
        ELSE Resolve(d, Res("Done"))

\* an error handler that leaves the watchdog armed
OnErrorNoClear(c) ==
    LET e == [c EXCEPT !.errored = TRUE]
    IN  IF c.op = "test" THEN Resolve(e, Res("ConnectionFailed"))
        ELSE Reject(e, Res("TransportError"))

\* an error handler that connects again instead of failing the call
OnErrorRetry(c) ==
    [c EXCEPT !.errored = TRUE, !.phase = "connecting", !.connects = @ + 1]

\* client.on('error')
OnError(c) ==
    LET e == [c EXCEPT !.errored = TRUE]
    IN  IF c.op = "run" THEN Reject(ClearTimer(e), Res("TransportError"))
        ELSE IF c.op = "test" THEN Resolve(ClearTimer(e), Res("ConnectionFailed"))
        ELSE Reject(e, Res("TransportError"))

\* a watchdog that rejects and leaves the client open
OnTimeoutNoEnd(c) ==
    LET f == [c EXCEPT !.timer = "fired"]
    IN  IF c.op = "test" THEN Resolve(End(f), Res("TestTimedOut"))
        ELSE Reject(f, Res("TimedOut"))

\* the setTimeout callback
OnTimeout(c) ==
    LET f == End([c EXCEPT !.timer = "fired"])
    IN  IF c.op = "test" THEN Resolve(f, Res("TestTimedOut"))
        ELSE Reject(f, Res("TimedOut"))

(***************************************************************************)
(* Actions: a call starts; the event loop delivers an event to a callback  *)
(***************************************************************************)
CallSlots == 1..MaxCalls

CallNames == {"a", "b", "c", "zz"}

LocalFile == <<"local", "f">>

LocalCopy == <<"local", "g">>

RemoteFile == <<"remote", "f">>

LocalPaths == {LocalFile, LocalCopy}

RemotePaths == {RemoteFile}

\* what a file can hold: one of two contents, or the cut-off content that a
\* transfer that failed may leave behind
Bytes == {"p", "q"}

Partial == "partial"

NoFile == "absent"

NoOrigin == [from |-> NoPath]

\* the files of `files`, each holding `here`, and the remote files, each
\* holding `there`. History: origin[r] names the local file whose upload to r
\* was the last write to r and reported success, and copy[p] the local file
\* that r had as its origin when a download of r, the last write to p,
\* reported success; both only for as long as the file named is not written.
DiskOf(files, here, there) ==
    [local  |-> [p \in LocalPaths |-> IF p \in files THEN here ELSE NoFile],
     remote |-> [r \in RemotePaths |-> there],
     origin |-> [r \in RemotePaths |-> NoOrigin],
     copy   |-> [p \in LocalPaths |-> NoOrigin]]

\* sftp.fastPut(localPath, remotePath, cb): with no error the remote file holds
\* what the local file holds; with an error it is as it was, or cut off
FastPut(d, c, err, cut) ==
    IF ~err THEN [d EXCEPT !.remote[c.remote] = d.local[c.local]]
    ELSE IF cut THEN [d EXCEPT !.remote[c.remote] = Partial]
    ELSE d

\* sftp.fastGet(remotePath, localPath, cb): the same, from remote to local
FastGet(d, c, err, cut) ==
    IF ~err THEN [d EXCEPT !.local[c.local] = d.remote[c.remote]]
    ELSE IF cut THEN [d EXCEPT !.local[c.local] = Partial]
    ELSE d

\* the files after the transfer of call c, which becomes call c2, with the
\* history kept up
Transfer(d, c, c2, err, cut) ==
    LET e == IF c.op = "upload" THEN FastPut(d, c, err, cut)
             ELSE IF c.op = "download" THEN FastGet(d, c, err, cut)
             ELSE d
        succeeded == c.settled = "pending" /\ c2.settled = "resolved"
        written(p) == e.local[p] # d.local[p]
        kept(o) == IF o # NoOrigin /\ written(o.from) THEN NoOrigin ELSE o
    IN  IF c.op = "upload"
        THEN [e EXCEPT !.origin[c.remote] =
                 IF succeeded THEN [from |-> c.local]
                 ELSE IF e.remote[c.remote] # d.remote[c.remote] THEN NoOrigin
                 ELSE @]
        ELSE IF c.op = "download"
        THEN [e EXCEPT !.origin = [r \in RemotePaths |-> kept(d.origin[r])],
                       !.copy = [p \in LocalPaths |->
                                    IF p = c.local
                                    THEN IF succeeded THEN kept(d.origin[c.remote])
                                         ELSE IF written(p) THEN NoOrigin
                                         ELSE kept(d.copy[p])
                                    ELSE kept(d.copy[p])]]
        ELSE e

Chunks == {"x"}

Exits == { [has |-> FALSE, code |-> 0], [has |-> TRUE, code |-> 0],
           [has |-> TRUE, code |-> 1] }

\* the remote end answers this call, and the library has not closed the client
Alive(c) == c.host = "up" /\ ~c.ended /\ ~c.errored

\* a call of op(name, ...); local and remote are the paths that uploadFile and
\* downloadFile are given, which they hand on to fastPut and fastGet
StartAt(i, op, name, host, local, remote) ==
    /\ calls[i].op = "none"
    /\ calls' = [calls EXCEPT ![i] =
                    LET c == [StartCall(op, name, host, local, getConnection(name), fs)
                                 EXCEPT !.conn = getConnection(name)]
                    IN  IF op \in {"upload", "download"}
                        THEN [c EXCEPT !.local = local, !.remote = remote]
                        ELSE c]
    /\ UNCHANGED <<connections, fs, disk, regVars, srvVars>>

Start(i, op, name, host) == StartAt(i, op, name, host, LocalFile, RemoteFile)

Ready(i) ==
    /\ calls[i].phase = "connecting" /\ Alive(calls[i])
    /\ calls' = [calls EXCEPT ![i] = OnReady(@)]
    /\ UNCHANGED <<connections, fs, disk, regVars, srvVars>>

\* the channel opens only on a live client; it may fail at any time
Channel(i, err) ==
    /\ calls[i].phase = "opening" /\ calls[i].host = "up"
    /\ err \/ Alive(calls[i])
    /\ calls' = [calls EXCEPT ![i] = OnChannel(@, err)]
    /\ UNCHANGED <<connections, fs, disk, regVars, srvVars>>

\* a chunk arrives on the command's stdout or stderr, or on the read stream;
\* at most `most` chunks per call
DataUpTo(i, chunk, toStderr, most) ==
    /\ calls[i].phase = "acting" /\ Alive(calls[i])
    /\ calls[i].op \in {"run", "read"}
    /\ toStderr => calls[i].op = "run"
    /\ Len(calls[i].stdout) + Len(calls[i].stderr) < most
    /\ calls' = [calls EXCEPT ![i] = IF toStderr THEN OnStderr(@, chunk)
                                     ELSE OnData(@, chunk)]
    /\ UNCHANGED <<connections, fs, disk, regVars, srvVars>>

Data(i, chunk, toStderr) == DataUpTo(i, chunk, toStderr, MaxChunks)

\* the command's stream closes: on exit, or when the connection goes away
StreamClose(i, exit) ==
    /\ calls[i].phase = "acting" /\ calls[i].op = "run" /\ calls[i].host = "up"
    /\ calls' = [calls EXCEPT ![i] = OnStreamClose(@, exit)]
    /\ UNCHANGED <<connections, fs, disk, regVars, srvVars>>

\* the operation's callback; a transfer reports no error only when the file
\* it reads exists
ActionDone(i, err) ==
    /\ calls[i].phase = "acting" /\ calls[i].op \in SftpOps /\ calls[i].host = "up"
    /\ err \/ Alive(calls[i])
    /\ (~err /\ calls[i].op = "upload") => disk.local[calls[i].local] # NoFile
    /\ (~err /\ calls[i].op = "download") => disk.remote[calls[i].remote] # NoFile
    /\ calls' = [calls EXCEPT ![i] = OnActionDone(@, err)]
    /\ \E cut \in BOOLEAN :
          /\ cut => (err /\ calls[i].op \in {"upload", "download"})
          /\ disk' = Transfer(disk, calls[i], calls'[i], err, cut)
    /\ fs' = IF calls[i].op = "download" /\ disk'.local[calls[i].local] # NoFile
             THEN fs \cup {calls[i].local} ELSE fs
    /\ UNCHANGED <<connections, regVars, srvVars>>

\* something else writes the remote file
RemoteWrite(r, bytes) ==
    /\ disk.remote[r] # bytes
    /\ disk' = [disk EXCEPT !.remote[r] = bytes, !.origin[r] = NoOrigin]
    /\ UNCHANGED <<calls, connections, fs, regVars, srvVars>>

\* the client's error event: once, in any phase after connect()
Error(i) ==
    /\ calls[i].connected /\ ~calls[i].errored /\ calls[i].host = "up"
    /\ calls' = [calls EXCEPT ![i] = OnError(@)]
    /\ UNCHANGED <<connections, fs, disk, regVars, srvVars>>

\* a watchdog whose client.end() closes one client that all calls share
TimerFireShared(i) ==
    /\ calls[i].timer = "armed"
    /\ calls' = [j \in DOMAIN calls |->
                    IF j = i THEN OnTimeout(calls[j])
                    ELSE IF calls[j].client = "created" THEN End(calls[j])
                    ELSE calls[j]]
    /\ UNCHANGED <<connections, fs, disk, regVars, srvVars>>

TimerFire(i) ==
    /\ calls[i].timer = "armed"
    /\ calls' = [calls EXCEPT ![i] =
                    [OnTimeout(@) EXCEPT
                        !.firedIn = IF calls[i].settled = "pending"
                                    THEN calls[i].phase ELSE "settled"]]
    /\ UNCHANGED <<connections, fs, disk, regVars, srvVars>>

(***************************************************************************)
(* SpecSession: operation calls against a loaded registry                  *)
(***************************************************************************)
\* the registry: "a" has a key file, "b" a password, "c" neither
SessionSource ==
    << Conn("a", "h1", 0, "u1", <<"~", "k">>, "", "config"),
       Conn("b", "h2", 2222, "u2", NoPath, "pw", "env"),
       Conn("c", "h3", 22, "u3", NoPath, "", "binarylane") >>

SessionRegistry == loadConnections(<<SessionSource>>).m

FsChoices ==
    { {},
      {HomeDir \o <<"k">>, LocalFile},
      {HomeDir \o <<".ssh", "id_rsa">>, LocalFile} }

InitSession ==
    /\ connections = SessionRegistry
    /\ fs \in FsChoices
    /\ disk = DiskOf(fs, "p", "q")
    /\ calls = [i \in CallSlots |-> NoCall]
    /\ RegistryUnused
    /\ ServerUnused

NextSession ==
    \/ \E i \in CallSlots, op \in Ops, n \in CallNames, h \in {"up", "silent"} :
           Start(i, op, n, h)
    \/ \E i \in CallSlots : Ready(i)
    \/ \E i \in CallSlots, err \in BOOLEAN : Channel(i, err)
    \/ \E i \in CallSlots, ch \in Chunks, e \in BOOLEAN : Data(i, ch, e)
    \/ \E i \in CallSlots, x \in Exits : StreamClose(i, x)
    \/ \E i \in CallSlots, err \in BOOLEAN : ActionDone(i, err)
    \/ \E i \in CallSlots : Error(i)
    \/ \E i \in CallSlots : TimerFire(i)

SpecSession == InitSession /\ [][NextSession]_vars

(***************************************************************************)
(* SpecPair: calls in flight together, against the same connection name     *)
(***************************************************************************)
\* one call more than a session alone has
PairSlots == 1..(MaxCalls + 1)

PairOps == {"run", "list"}

InitPair ==
    /\ connections = SessionRegistry
    /\ fs = {HomeDir \o <<"k">>, LocalFile}
    /\ disk = DiskOf(fs, "p", "q")
    /\ calls = [i \in PairSlots |-> NoCall]
    /\ RegistryUnused
    /\ ServerUnused

NextPair ==
    \/ \E i \in PairSlots, op \in PairOps : Start(i, op, "a", "up")
    \/ \E i \in PairSlots : Ready(i)
    \/ \E i \in PairSlots, err \in BOOLEAN : Channel(i, err)
    \/ \E i \in PairSlots, ch \in Chunks : Data(i, ch, FALSE)
    \/ \E i \in PairSlots : StreamClose(i, [has |-> TRUE, code |-> 0])
    \/ \E i \in PairSlots, err \in BOOLEAN : ActionDone(i, err)
    \/ \E i \in PairSlots : Error(i)
    \/ \E i \in PairSlots : TimerFire(i)

SpecPair == InitPair /\ [][NextPair]_vars

(***************************************************************************)
(* SpecCred: calls against one record, over the ways a record can name its  *)
(* credential and the key files that can exist                              *)
(***************************************************************************)
CredRecords ==
    { Conn("k", "hk", 22, "uk", key, pw, "config") :
        key \in {NoPath, <<"~", "k">>}, pw \in {"", "pw"} }

KeyFiles == { HomeDir \o <<"k">>, DefaultKeys[1], DefaultKeys[2] }

InitCred ==
    /\ \E rec \in CredRecords : connections = loadConnections(<< <<rec>> >>).m
    /\ \E present \in SUBSET KeyFiles : fs = present \cup {LocalFile}
    /\ disk = DiskOf(fs, "p", "q")
    /\ calls = [i \in CallSlots |-> NoCall]
    /\ RegistryUnused
    /\ ServerUnused

\* the host stays silent: the call goes no further than its connect
NextCred ==
    \/ \E i \in CallSlots, op \in Ops : Start(i, op, "k", "silent")
    \/ \E i \in CallSlots : TimerFire(i)

SpecCred == InitCred /\ [][NextCred]_vars

(***************************************************************************)
(* SpecStream: one runCommand whose stdout and stderr arrive in chunks      *)
(***************************************************************************)
StreamChunks == {"x", "y"}

InitStream ==
    /\ connections = SessionRegistry
    /\ fs = {}
    /\ disk = DiskOf(fs, "p", "q")
    /\ calls = [i \in CallSlots |-> NoCall]
    /\ RegistryUnused
    /\ ServerUnused

NextStream ==
    \/ Start(1, "run", "b", "up")
    \/ Ready(1)
    \/ \E err \in BOOLEAN : Channel(1, err)
    \/ \E ch \in StreamChunks, e \in BOOLEAN : DataUpTo(1, ch, e, MaxStream)
    \/ \E x \in Exits : StreamClose(1, x)
    \/ Error(1)
    \/ TimerFire(1)

SpecStream == InitStream /\ [][NextStream]_vars

(***************************************************************************)
(* SpecTransfer: uploads of one local file and downloads into another,      *)
(* through one remote file that something else may write as well            *)
(***************************************************************************)
InitTransfer ==
    /\ connections = SessionRegistry
    /\ fs = {LocalFile}
    /\ \E here \in Bytes, there \in {NoFile, "q"} : disk = DiskOf(fs, here, there)
    /\ calls = [i \in PairSlots |-> NoCall]
    /\ RegistryUnused
    /\ ServerUnused

NextTransfer ==
    \/ \E i \in PairSlots : StartAt(i, "upload", "b", "up", LocalFile, RemoteFile)
    \/ \E i \in PairSlots : StartAt(i, "download", "b", "up", LocalCopy, RemoteFile)
    \/ \E i \in PairSlots : Ready(i)
    \/ \E i \in PairSlots : Channel(i, FALSE)
    \/ \E i \in PairSlots, err \in BOOLEAN : ActionDone(i, err)
    \/ \E bytes \in Bytes : RemoteWrite(RemoteFile, bytes)

SpecTransfer == InitTransfer /\ [][NextTransfer]_vars

(***************************************************************************)
(* SpecChurn: operation calls while the registry is reloaded, added to and  *)
(* removed from                                                            *)
(***************************************************************************)
\* the lists of the reload: "a" is redefined, "b" and "c" are gone
ChurnSource == << Conn("a", "h9", 0, "u9", NoPath, "pw9", "config") >>

ChurnOps == {"run", "upload", "test"}

InitChurn ==
    /\ connections = SessionRegistry
    /\ sources = <<ChurnSource>>
    /\ origSources = sources
    /\ hist = NoHist
    /\ fs = {HomeDir \o <<"k">>, LocalFile}
    /\ disk = DiskOf(fs, "p", "q")
    /\ calls = [i \in CallSlots |-> NoCall]
    /\ ServerUnused

NextChurn ==
    \/ \E i \in CallSlots, op \in ChurnOps, n \in Names : Start(i, op, n, "up")
    \/ \E i \in CallSlots : Ready(i)
    \/ \E i \in CallSlots, err \in BOOLEAN : Channel(i, err)
    \/ \E i \in CallSlots, ch \in Chunks : Data(i, ch, FALSE)
    \/ \E i \in CallSlots : StreamClose(i, [has |-> TRUE, code |-> 0])
    \/ \E i \in CallSlots, err \in BOOLEAN : ActionDone(i, err)
    \/ \E i \in CallSlots : Error(i)
    \/ \E i \in CallSlots : TimerFire(i)
    \/ LoadConnections
    \/ \E c \in AddRecords : AddConnection(c)
    \/ \E n \in Names : RemoveConnection(n)

SpecChurn == InitChurn /\ [][NextChurn]_vars

\* the event loop runs a timer that is due
LiveSession == SpecSession /\ \A i \in CallSlots : WF_vars(TimerFire(i))


(***************************************************************************)
(* Properties of the operations                                            *)
(***************************************************************************)
Settled(c) == c.settled # "pending"

\* C2 (as claimed): a call that opened a transport (client.connect was called)
\* has requested its close (client.end) whenever it has settled, by whichever
\* path.
C2_ReleasedWhenSettled ==
    \A i \in CallSlots :
        (calls[i].connected /\ Settled(calls[i])) => calls[i].ended

\* C3 (as claimed): testConnection never rejects, whatever the name and the
\* transport's behaviour.
C3_TestNeverRejects ==
    \A i \in CallSlots :
        calls[i].op = "test" => calls[i].settled # "rejected"

\* C5: when runCommand's watchdog fires while the call is pending, in whichever
\* phase (connecting, channel opening, command executing), client.end() has
\* been called and the call is rejected with the timed-out error.
C5_WatchdogClosesAndFails ==
    \A i \in CallSlots :
        (calls[i].op = "run" /\ calls[i].firedIn \in {"connecting", "opening", "acting"}) =>
            /\ calls[i].ended
            /\ calls[i].settled = "rejected"
            /\ calls[i].result = Res("TimedOut")

\* the watchdog fired while the command was executing and had produced output
C5_Witness ==
    \E i \in CallSlots :
        /\ calls[i].op = "run" /\ calls[i].firedIn = "acting"
        /\ calls[i].stdout # <<>>
        /\ calls[i].result = Res("TimedOut")

\* C6: a runCommand whose client was connected to a host that never answers
\* (no ready, error or close event) is eventually rejected with the timed-out
\* error: it does not stay pending.
C6_SilentHostTimesOut ==
    \A i \in CallSlots :
        (calls[i].op = "run" /\ calls[i].connected /\ calls[i].host = "silent")
            ~> (calls[i].settled = "rejected" /\ calls[i].result = Res("TimedOut"))

\* a runCommand that timed out while connecting to a silent host
C6_Witness ==
    \E i \in CallSlots :
        /\ calls[i].op = "run" /\ calls[i].host = "silent"
        /\ calls[i].firedIn = "connecting"
        /\ calls[i].result = Res("TimedOut")

\* C7: runCommand, readFile, listDirectory, uploadFile or downloadFile with a
\* name the registry does not hold is rejected with the unknown-connection
\* error; no client is created, nothing is connected, no watchdog is armed, and
\* the registry is what it was.
C7_UnknownConnection ==
    /\ connections = SessionRegistry
    /\ \A i \in CallSlots :
          (calls[i].op \in {"run"} \cup SftpOps /\ ~MapHas(connections, calls[i].name)) =>
              /\ calls[i].settled = "rejected"
              /\ calls[i].result = Res("UnknownConnection")
              /\ calls[i].client = "none"
              /\ ~calls[i].connected
              /\ calls[i].phase = "none"
              /\ calls[i].timer = "none"

\* an upload to an unknown name, with the local file present
C7_Witness ==
    \E i \in CallSlots :
        /\ calls[i].op = "upload" /\ calls[i].name = "zz"
        /\ LocalFile \in fs
        /\ calls[i].result = Res("UnknownConnection")

C14_WatchdogDisarmed ==
    \A i \in CallSlots :
        (calls[i].op \in {"run", "test"} /\ Settled(calls[i])) =>
            /\ calls[i].timer # "armed"
            /\ calls[i].firedIn # "settled"
            /\ (calls[i].client = "created" /\ calls[i].timer # "fired") =>
                   calls[i].timer = "cleared"

\* a command failed by a transport error while executing, its watchdog cleared
C14_Witness ==
    \E i \in CallSlots :
        /\ calls[i].op = "run" /\ calls[i].errored
        /\ calls[i].phase = "acting"
        /\ calls[i].result = Res("TransportError")
        /\ calls[i].timer = "cleared"

\* C15: client.end() has been called only on a call whose action has completed
\* or failed (the phase is finished) or whose watchdog has fired: never while
\* the call is connecting, opening its channel or acting with the watchdog not
\* fired.
C15_TeardownAfterAction ==
    \A i \in CallSlots :
        calls[i].ended => (calls[i].phase = "finished" \/ calls[i].timer = "fired")

\* a remote file was read to its end, and the client closed then
C15_Witness ==
    \E i \in CallSlots :
        /\ calls[i].op = "read" /\ calls[i].ended
        /\ calls[i].phase = "finished"
        /\ calls[i].stdout # <<>>
        /\ calls[i].result.tag = "Content"

\* C17: a call connects its client at most once, opens at most one channel and
\* issues at most one file or directory operation, whatever failed; a call
\* that did not get to connect opened and issued nothing.
C17_SingleAttempt ==
    \A i \in CallSlots :
        /\ calls[i].connects <= 1
        /\ calls[i].opens <= calls[i].connects
        /\ calls[i].acts <= calls[i].opens
        /\ calls[i].connected <=> calls[i].connects = 1

\* a download that failed in the transfer after one connect, one channel and
\* one transfer, and a transport error after that
C17_Witness ==
    \E i \in CallSlots :
        /\ calls[i].op = "download" /\ calls[i].result = Res("RemoteError")
        /\ calls[i].errored
        /\ calls[i].connects = 1 /\ calls[i].opens = 1 /\ calls[i].acts = 1

\* C16: an event of one call (ready, channel, data, close, completion, error,
\* watchdog) changes that call's client, timer, accumulators and result only:
\* every other call in flight, also one against the same connection name,
\* keeps its own client open or closed as it was and its result as it was.
C16_CallsIndependent ==
    [][ \A i, j \in PairSlots :
            (i # j /\ calls'[i] # calls[i]) => calls'[j] = calls[j] ]_vars

\* two commands against the same name, each with a client of its own: one
\* timed out and its client was closed, the other then ran to completion
C16_Witness ==
    \E i, j \in PairSlots :
        /\ i # j
        /\ calls[i].op = "run" /\ calls[j].op = "run"
        /\ calls[i].name = calls[j].name
        /\ calls[i].client = "created" /\ calls[j].client = "created"
        /\ calls[i].result = Res("TimedOut") /\ calls[i].ended
        /\ calls[j].result.tag = "CommandResult"
        /\ calls[j].timer = "cleared" /\ ~calls[j].late

\* C18: the credential a call resolves for its record k.  With a key path set:
\* that file if it exists, else key-not-found, whatever the password and the
\* default keys.  Else with a password set: the password.  Else the first of
\* ~/.ssh/id_ed25519, ~/.ssh/id_rsa that exists; and with none of them,
\* no-authentication-available.  The client is connected exactly when a
\* credential was found.
C18_CredentialOrder ==
    \A i \in CallSlots :
        calls[i].client = "created" =>
            LET r == getConnection(calls[i].name)
                g == calls[i].config
                ed == HomeDir \o <<".ssh", "id_ed25519">>
                rsa == HomeDir \o <<".ssh", "id_rsa">>
                key(path) == g.ok /\ g.privateKey = path /\ g.password = ""
                fails(e) == ~g.ok /\ g.error = e /\ g.privateKey = <<>> /\ g.password = ""
            IN  /\ calls[i].connected <=> g.ok
                /\ IF r.privateKeyPath # <<>>
                   THEN IF r.privateKeyPath \in fs THEN key(r.privateKeyPath)
                        ELSE fails("KeyNotFound")
                   ELSE IF r.password # ""
                   THEN g.ok /\ g.password = r.password /\ g.privateKey = <<>>
                   ELSE IF ed \in fs THEN key(ed)
                   ELSE IF rsa \in fs THEN key(rsa)
                   ELSE fails("NoAuthentication")

\* the record names a key file that does not exist and also has a password,
\* and a default key exists: the call fails with key-not-found
C18_Witness ==
    \E i \in CallSlots :
        /\ calls[i].client = "created"
        /\ getConnection(calls[i].name).privateKeyPath = HomeDir \o <<"k">>
        /\ getConnection(calls[i].name).password = "pw"
        /\ HomeDir \o <<"k">> \notin fs
        /\ HomeDir \o <<".ssh", "id_ed25519">> \in fs
        /\ calls[i].config.error = "KeyNotFound"
        /\ calls[i].settled = "rejected"

\* the chunks of one stream among the arrived ones, in arrival order
OfStream(arrived, stream) ==
    LET mine == SelectSeq(arrived, LAMBDA a : a.stream = stream)
    IN  [k \in 1..Len(mine) |-> mine[k].chunk]

\* C25: a runCommand that resolved returns as stdout the stdout chunks that
\* arrived before the exit notification, in arrival order, as stderr the
\* stderr chunks likewise, none of either in the other, and as code the exit
\* code the transport reported, 0 when it reported none.
C25_OutputByStream ==
    \A i \in CallSlots :
        (calls[i].op = "run" /\ calls[i].settled = "resolved") =>
            /\ calls[i].exit.seen
            /\ calls[i].result.tag = "CommandResult"
            /\ calls[i].result.stdout = OfStream(calls[i].arrived, "out")
            /\ calls[i].result.stderr = OfStream(calls[i].arrived, "err")
            /\ calls[i].result.code =
                  IF calls[i].exit.has THEN calls[i].exit.code ELSE 0

\* stderr y arrived before stdout x, then the exit notification without a code
C25_Witness ==
    \E i \in CallSlots :
        /\ calls[i].op = "run" /\ calls[i].settled = "resolved"
        /\ calls[i].arrived = << [stream |-> "err", chunk |-> "y"],
                                 [stream |-> "out", chunk |-> "x"] >>
        /\ ~calls[i].exit.has
        /\ calls[i].result.stdout = <<"x">> /\ calls[i].result.stderr = <<"y">>
        /\ calls[i].result.code = 0

C27_UploadLocalMissing ==
    \A i \in CallSlots :
        (calls[i].op = "upload" /\ MapHas(connections, calls[i].name)
            /\ LocalFile \notin fs) =>
            /\ calls[i].settled = "rejected"
            /\ calls[i].result = Res("LocalFileNotFound")
            /\ calls[i].client = "none"
            /\ calls[i].config = NoConfig
            /\ calls[i].connects = 0 /\ ~calls[i].connected
            /\ calls[i].phase = "none"

\* an upload to b, whose password needs no file, with no local file
C27_Witness ==
    \E i \in CallSlots :
        /\ calls[i].op = "upload" /\ calls[i].name = "b"
        /\ MapHas(connections, "b") /\ getConnection("b").password # ""
        /\ LocalFile \notin fs
        /\ calls[i].result = Res("LocalFileNotFound")

C32_CallTimeRecord ==
    \A i \in CallSlots :
        LET c == calls[i] IN
        c.op # "none" =>
            /\ c.result = Res("UnknownConnection") <=> c.conn = Undefined
            /\ c.connects > 0 =>
                  /\ c.conn # Undefined
                  /\ c.config.ok
                  /\ c.config = getConnectConfig(c.conn, fs)
            /\ c.result.tag \in {"KeyNotFound", "NoAuthentication", "ConfigurationError"} =>
                  /\ c.conn # Undefined
                  /\ ~getConnectConfig(c.conn, fs).ok

\* a runCommand on b, which had host h2 and a password when it was called,
\* returned the command's result after b had gone from the registry
C32_Witness ==
    \E i \in CallSlots :
        /\ calls[i].op = "run" /\ calls[i].name = "b"
        /\ calls[i].result.tag = "CommandResult"
        /\ calls[i].config.host = "h2" /\ calls[i].config.password = "pw"
        /\ ~MapHas(connections, "b")
        /\ hist.op \in {"load", "reload"}

\* C33: a call on a known connection whose key file is missing, or which has
\* no key file, no password and no default key, has failed with that error
\* (testConnection, which never rejects, reports it as a configuration
\* error); client.connect was never called, and the watchdog that runCommand
\* and testConnection armed is cleared and so never fires.
C33_CredentialFailure ==
    \A i \in CallSlots :
        LET c == calls[i]
            keyMissing == c.conn.privateKeyPath # NoPath /\ c.conn.privateKeyPath \notin fs
            noMethod == /\ c.conn.privateKeyPath = NoPath /\ c.conn.password = ""
                        /\ \A k \in 1..Len(DefaultKeys) : DefaultKeys[k] \notin fs
        IN  (c.op # "none" /\ c.conn # Undefined /\ LocalFile \in fs
                /\ (keyMissing \/ noMethod)) =>
                /\ IF c.op = "test"
                   THEN c.settled = "resolved" /\ c.result = Res("ConfigurationError")
                   ELSE /\ c.settled = "rejected"
                        /\ c.result = Res(IF keyMissing THEN "KeyNotFound"
                                           ELSE "NoAuthentication")
                /\ c.config.error = (IF keyMissing THEN "KeyNotFound" ELSE "NoAuthentication")
                /\ c.connects = 0 /\ ~c.connected /\ c.phase = "none"
                /\ c.timer = (IF c.op \in {"run", "test"} THEN "cleared" ELSE "none")

\* a runCommand on a record whose key file is missing, although it has a
\* password and a default key exists
C33_Witness ==
    \E i \in CallSlots :
        /\ calls[i].op = "run" /\ calls[i].result = Res("KeyNotFound")
        /\ calls[i].conn.password = "pw"
        /\ DefaultKeys[1] \in fs
        /\ calls[i].timer = "cleared" /\ calls[i].connects = 0

====
